---- MODULE Spec2Model ----
(***************************************************************************)
(* A model of the localorm query builder: Entity (where / limit / skip /   *)
(* with / get / find / loadRelations / matches / clear), Model.relation    *)
(* and the Relation descriptors, over an IndexedDB-like keyed store that   *)
(* answers each request asynchronously with success or error.              *)
(***************************************************************************)
EXTENDS Integers, Sequences, FiniteSets, TLC

(***************************************************************************)
(* JavaScript values.  Every value is a record [t, v]: t is the type tag   *)
(* and v a sequence of integers (the number, the character codes of a      *)
(* string, the numbers of an array), so that any two values can be         *)
(* compared.  An operator map {$op: operand, ...} is tagged "object" and   *)
(* holds its entries in insertion order.                                   *)
(***************************************************************************)
Num(n) == [t |-> "number", v |-> <<n>>]

Str(s) == [t |-> "string", v |-> s]

Arr(s) == [t |-> "array", v |-> s]

Undefined == [t |-> "undefined", v |-> <<>>]

Null == [t |-> "null", v |-> <<>>]

\* one entry of an operator map
Op(op, operand) == [op |-> op, operand |-> operand]

\* an operator map: a non-null, non-array object
Obj(ops) == [t |-> "object", v |-> ops]

\* one entry `key: value` of a Query<T> object
Entry(key, value) == [key |-> key, value |-> value]

\* item[key]: a field the record lacks reads as undefined
Field(item, key) == IF key \in DOMAIN item THEN item[key] ELSE Undefined

\* JavaScript truthiness of a number-or-null builder field (if (this.offset))
Truthy(x) == x.t = "number" /\ x.v[1] # 0

\* a == b in place of a === b: null and undefined equal each other
StrictEquals_loose(a, b) ==
    \/ a.t = b.t /\ a.t \notin {"array", "object"} /\ a.v = b.v
    \/ {a.t, b.t} = {"null", "undefined"}

\* a === b (arrays and objects are equal only by reference; a stored record
\* never shares a reference with a query literal)
StrictEquals(a, b) == a.t = b.t /\ a.t \notin {"array", "object"} /\ a.v = b.v

\* ToNumber(x) as [nan, n]; no string of the model spells a number, so only
\* the empty string converts to one
ToNumber(x) ==
    CASE x.t = "number" -> [nan |-> FALSE, n |-> x.v[1]]
      [] x.t = "null" -> [nan |-> FALSE, n |-> 0]
      [] x.t \in {"string", "array"} /\ Len(x.v) = 0 -> [nan |-> FALSE, n |-> 0]
      [] x.t = "array" /\ Len(x.v) = 1 -> [nan |-> FALSE, n |-> x.v[1]]
      [] OTHER -> [nan |-> TRUE, n |-> 0]

RECURSIVE LexLess(_, _)
\* string a sorts strictly before string b (code unit order)
LexLess(a, b) ==
    IF Len(b) = 0 THEN FALSE
    ELSE IF Len(a) = 0 THEN TRUE
    ELSE IF a[1] # b[1] THEN a[1] < b[1]
    ELSE LexLess(Tail(a), Tail(b))

\* a < b
Less(a, b) ==
    IF a.t = "string" /\ b.t = "string" THEN LexLess(a.v, b.v)
    ELSE /\ ~ToNumber(a).nan
         /\ ~ToNumber(b).nan
         /\ ToNumber(a).n < ToNumber(b).n

\* a <= b that is false of equal values
LessEq_strict(a, b) == Less(a, b)

\* a <= b
LessEq(a, b) ==
    IF a.t = "string" /\ b.t = "string" THEN ~LexLess(b.v, a.v)
    ELSE /\ ~ToNumber(a).nan
         /\ ~ToNumber(b).nan
         /\ ToNumber(a).n <= ToNumber(b).n

\* s.startsWith(p)
StartsWith(s, p) == Len(p) <= Len(s) /\ SubSeq(s, 1, Len(p)) = p

\* s.endsWith(p)
EndsWith(s, p) == Len(p) <= Len(s) /\ SubSeq(s, Len(s) - Len(p) + 1, Len(s)) = p

\* s.includes(p)
Includes(s, p) ==
    \E i \in 0..(Len(s) - Len(p)) : SubSeq(s, i + 1, i + Len(p)) = p

\* whether operand has an includes method (an array or a string)
HasIncludes(operand) == operand.t \in {"array", "string"}

\* operand.includes(itemValue) that looks at the first element of an array only
IncludesValue_firstElement(operand, itemValue) ==
    IF operand.t = "array"
    THEN itemValue.t = "number" /\ Len(operand.v) > 0 /\ operand.v[1] = itemValue.v[1]
    ELSE \/ itemValue.t = "string" /\ Includes(operand.v, itemValue.v)
         \/ itemValue = Arr(<<>>)

\* operand.includes(itemValue), for an operand that has the method: membership
\* in an array of numbers, or the substring test of a string operand (which
\* converts the item to a string: the empty array to "", found in every
\* string; no string of the model spells a number, "null" or "undefined", so
\* of the other items only a string can be found)
IncludesValue(operand, itemValue) ==
    IF operand.t = "array"
    THEN itemValue.t = "number" /\ \E i \in DOMAIN operand.v : operand.v[i] = itemValue.v[1]
    ELSE \/ itemValue.t = "string" /\ Includes(operand.v, itemValue.v)
         \/ itemValue = Arr(<<>>)

(***************************************************************************)
(* Entity.matches.  The evaluation of one operator entry either falls      *)
(* through to the next entry ("break"), returns false, or throws a         *)
(* TypeError (operand.includes is not a function).                         *)
(***************************************************************************)
matchesOperator(operator, itemValue, operand) ==
    CASE operator = "$eq" -> IF ~StrictEquals(itemValue, operand) THEN "false" ELSE "break"
      [] operator = "$ne" -> IF StrictEquals(itemValue, operand) THEN "false" ELSE "break"
      [] operator = "$gt" -> IF LessEq(itemValue, operand) THEN "false" ELSE "break"
      [] operator = "$gte" -> IF Less(itemValue, operand) THEN "false" ELSE "break"
      [] operator = "$lt" -> IF LessEq(operand, itemValue) THEN "false" ELSE "break"
      [] operator = "$lte" -> IF Less(operand, itemValue) THEN "false" ELSE "break"
      [] operator = "$in" ->
            IF ~HasIncludes(operand) THEN "throw"
            ELSE IF ~IncludesValue(operand, itemValue) THEN "false" ELSE "break"
      [] operator = "$nin" ->
            IF ~HasIncludes(operand) THEN "throw"
            ELSE IF IncludesValue(operand, itemValue) THEN "false" ELSE "break"
      [] operator = "$startsWith" ->
            IF itemValue.t = "string" /\ operand.t = "string"
               /\ ~StartsWith(itemValue.v, operand.v) THEN "false" ELSE "break"
      [] operator = "$endsWith" ->
            IF itemValue.t = "string" /\ operand.t = "string"
               /\ ~EndsWith(itemValue.v, operand.v) THEN "false" ELSE "break"
      [] operator = "$contains" ->
            IF itemValue.t = "string" /\ operand.t = "string"
               /\ ~Includes(itemValue.v, operand.v) THEN "false" ELSE "break"
      [] OTHER -> "false"

RECURSIVE matchesOperators(_, _)
\* the inner loop `for (const op in queryValue)`: "true" when every entry
\* falls through
matchesOperators(itemValue, ops) ==
    IF ops = <<>> THEN "true"
    ELSE LET r == matchesOperator(Head(ops).op, itemValue, Head(ops).operand)
         IN  IF r = "break" THEN matchesOperators(itemValue, Tail(ops)) ELSE r

\* matches() that checks the first key of the query only
matchesResult_firstKey(item, query) ==
    IF query = <<>> THEN "true"
    ELSE LET queryValue == Head(query).value
             itemValue == Field(item, Head(query).key)
         IN  IF queryValue.t = "object"
             THEN matchesOperators(itemValue, queryValue.v)
             ELSE IF ~StrictEquals(itemValue, queryValue) THEN "false" ELSE "true"

RECURSIVE matchesResult(_, _)
\* the outer loop `for (const key in query)`: "true", "false" or "throw"
matchesResult(item, query) ==
    IF query = <<>> THEN "true"
    ELSE LET queryValue == Head(query).value
             itemValue == Field(item, Head(query).key)
             r == IF queryValue.t = "object"
                  THEN matchesOperators(itemValue, queryValue.v)
                  ELSE IF ~StrictEquals(itemValue, queryValue) THEN "false" ELSE "true"
         IN  IF r = "true" THEN matchesResult(item, Tail(query)) ELSE r

\* matches(item, query) returns true
matches(item, query) == matchesResult(item, query) = "true"

\* matches(item, query) throws
matchesThrows(item, query) == matchesResult(item, query) = "throw"

(***************************************************************************)
(* Bounds of the model.                                                    *)
(***************************************************************************)
\* most where() clauses accumulated on a handle between two executions
MaxClauses == 2

\* largest argument of limit() and skip()
MaxCount == 2

\* most builder calls chained before an execution, where the chain is recorded
MaxChain == 3

\* most with() calls chained before an execution, where the chain is recorded
MaxWiths == 2

\* most builder calls between two get() calls, where calls may overlap
MaxOverlap == 1

\* most get() calls unanswered at once, where calls may overlap
MaxAsked == 2

(***************************************************************************)
(* The stores: the fixture of the test suite (users and posts, keys        *)
(* assigned by auto-increment, getAll answers in key order), and the       *)
(* stores of the README's relationship examples: accounts holding an array *)
(* of role keys (the third account lacks it) and roles.  Strings are       *)
(* sequences of character codes.                                           *)
(***************************************************************************)
StoreRecords(storeName) ==
    CASE storeName = "users" ->
            << [id |-> Num(1), name |-> Str(<<65, 108, 105, 99, 101>>), age |-> Num(30)],
               [id |-> Num(2), name |-> Str(<<66, 111, 98>>), age |-> Num(25)],
               [id |-> Num(3), name |-> Str(<<67, 104, 97, 114, 108, 105, 101>>), age |-> Num(35)],
               [id |-> Num(4), name |-> Str(<<68, 97, 118, 105, 100>>), age |-> Num(25)] >>
      [] storeName = "posts" ->
            << [id |-> Num(1), title |-> Str(<<80, 49>>), userId |-> Num(1)],
               [id |-> Num(2), title |-> Str(<<80, 50>>), userId |-> Num(1)],
               [id |-> Num(3), title |-> Str(<<80, 51>>), userId |-> Num(2)] >>
      [] storeName = "accounts" ->
            << [id |-> Num(1), roleIds |-> Arr(<<3, 1>>)],
               [id |-> Num(2), roleIds |-> Arr(<<>>)],
               [id |-> Num(3)] >>
      [] storeName = "roles" ->
            << [id |-> Num(1), name |-> Str(<<82, 49>>)],
               [id |-> Num(2), name |-> Str(<<82, 50>>)],
               [id |-> Num(3), name |-> Str(<<82, 51>>)] >>
      [] OTHER -> <<>>

\* store.getAll(): request.result on success
getAll(storeName) == StoreRecords(storeName)

\* store.get(id): request.result on success, the record or undefined
getByKey(storeName, id) ==
    LET rows == SelectSeq(StoreRecords(storeName), LAMBDA r : r.id = Num(id))
    IN  IF rows = <<>> THEN <<>> ELSE <<rows[1]>>

\* request.error: the DOMException names a failed request can carry
StoreErrors ==
    { [t |-> "DOMException", name |-> "AbortError"],
      [t |-> "DOMException", name |-> "UnknownError"] }

NoError == [t |-> "none", name |-> ""]

(***************************************************************************)
(* Model classes and relation descriptors.                                 *)
(***************************************************************************)
\* an Entity constructed without a modelClass
NoModel == "undefined"

\* new Entity(storeName, modelClass): the builder fields start empty
Entity(storeName, modelClass) ==
    [storeName |-> storeName, modelClass |-> modelClass,
     queries |-> <<>>, take |-> Null, offset |-> Null, withs |-> <<>>,
     kind |-> "Entity", foreignKey |-> "", localKey |-> ""]

\* new OneToOne / OneToMany / ManyToMany(storeName, foreignKey, localKey):
\* super(storeName) binds no modelClass
Relation(kind, storeName, foreignKey, localKey) ==
    [Entity(storeName, NoModel) EXCEPT
        !.kind = kind, !.foreignKey = foreignKey, !.localKey = localKey]

\* modelInstance.relations(): User declares posts, Post inherits the empty
\* table of Model; Account declares one relation of each class, each call
\* constructing the descriptors anew
relations(modelClass) ==
    CASE modelClass = "User" ->
            [posts |-> Relation("OneToMany", "posts", "userId", "id")]
      [] modelClass = "Account" ->
            [posts |-> Relation("OneToMany", "posts", "userId", "id"),
             post |-> Relation("OneToOne", "posts", "userId", "id"),
             roles |-> Relation("ManyToMany", "roles", "id", "roleIds")]
      [] OTHER -> <<>>

\* Model.relation(name) throws when the table lacks the name
relationThrows(modelClass, name) == name \notin DOMAIN relations(modelClass)

\* Model.relation(name), when it does not throw
relation(modelClass, name) == relations(modelClass)[name]

(***************************************************************************)
(* The fluent builder methods, as functions of the entity's fields.        *)
(***************************************************************************)
where(e, query) == [e EXCEPT !.queries = Append(@, query)]

limit(e, count) == [e EXCEPT !.take = count]

\* skip() that adds to the offset already set
skip_cumulative(e, count) ==
    [e EXCEPT !.offset = IF @.t = "number" THEN Num(@.v[1] + count.v[1]) ELSE count]

skip(e, count) == [e EXCEPT !.offset = count]

\* with() that keeps the entries of the directive already set whose names
\* the new directive lacks
with_merged(e, withs) ==
    [e EXCEPT !.withs =
        SelectSeq(@, LAMBDA w : \A i \in DOMAIN withs : withs[i].name # w.name) \o withs]

with(e, withs) == [e EXCEPT !.withs = withs]

\* clear() that forgets to reset take
clear_keepsTake(e) == [e EXCEPT !.queries = <<>>, !.offset = Null, !.withs = <<>>]

clear(e) == [e EXCEPT !.queries = <<>>, !.take = Null, !.offset = Null, !.withs = <<>>]

\* a builder call made by a refinement function
Call(m, query, count, withs) == [m |-> m, query |-> query, count |-> count, withs |-> withs]

\* one entry `name: fn` of a WithQuery; fn is the chain of builder calls the
\* function makes on the query it is given
WithEntry(name, fn) == [name |-> name, fn |-> fn]

RECURSIVE queryBuilder(_, _)
\* queryBuilder(relatedQuery): the refinement's calls, applied in order
queryBuilder(fn, e) ==
    IF fn = <<>> THEN e
    ELSE LET c == Head(fn)
             e1 == CASE c.m = "where" -> where(e, c.query)
                     [] c.m = "limit" -> limit(e, c.count)
                     [] c.m = "skip" -> skip(e, c.count)
                     [] c.m = "with" -> with(e, c.withs)
         IN  queryBuilder(Tail(fn), e1)

\* getRelated() whose OneToOne keeps the first related record only
getRelated_oneToOneFirst(rel, model) ==
    LET foreignKeyValue == Field(model, rel.localKey)
    IN  IF rel.kind = "ManyToMany"
        THEN where(rel, <<Entry(rel.foreignKey, Obj(<<Op("$in", foreignKeyValue)>>))>>)
        ELSE IF rel.kind = "OneToOne"
        THEN limit(where(rel, <<Entry(rel.foreignKey, foreignKeyValue)>>), Num(1))
        ELSE where(rel, <<Entry(rel.foreignKey, foreignKeyValue)>>)

\* getRelated() whose ManyToMany compares the foreign key with the array
\* itself, as the other two classes compare it with the key
getRelated_manyToManyLiteral(rel, model) ==
    where(rel, <<Entry(rel.foreignKey, Field(model, rel.localKey))>>)

\* getRelated(model) of the three Relation classes
getRelated(rel, model) ==
    LET foreignKeyValue == Field(model, rel.localKey)
    IN  IF rel.kind = "ManyToMany"
        THEN where(rel, <<Entry(rel.foreignKey, Obj(<<Op("$in", foreignKeyValue)>>))>>)
        ELSE where(rel, <<Entry(rel.foreignKey, foreignKeyValue)>>)

\* Object.keys(withs), in insertion order
Keys(withs) == [i \in DOMAIN withs |-> withs[i].name]

\* withs[relationName]
WithFn(withs, name) == withs[CHOOSE i \in DOMAIN withs : withs[i].name = name].fn

(***************************************************************************)
(* The synchronous part of get()'s onsuccess: filter, skip, limit.         *)
(***************************************************************************)
RECURSIVE applyQueries(_, _)
\* this.queries.forEach(query => results = results.filter(matches)), as
\* [threw, results]: a throwing matches() ends the callback
applyQueries(results, queries) ==
    IF queries = <<>> THEN [threw |-> FALSE, results |-> results]
    ELSE IF \E i \in DOMAIN results : matchesThrows(results[i], Head(queries))
    THEN [threw |-> TRUE, results |-> <<>>]
    ELSE applyQueries(SelectSeq(results, LAMBDA item : matches(item, Head(queries))),
                      Tail(queries))

\* results.slice(start)
sliceFrom(results, start) == SubSeq(results, start + 1, Len(results))

\* results.slice(0, end)
sliceTo(results, end) == SubSeq(results, 1, IF end < Len(results) THEN end ELSE Len(results))

\* the `if (this.offset)` block
applySkip(e, results) ==
    IF Truthy(e.offset) THEN sliceFrom(results, e.offset.v[1]) ELSE results

\* the limit block testing `this.take !== null`: limit(0) keeps nothing
applyLimit_zeroKeepsNone(e, results) ==
    IF e.take.t = "number" THEN sliceTo(results, e.take.v[1]) ELSE results

\* the `if (this.take)` block
applyLimit(e, results) ==
    IF Truthy(e.take) THEN sliceTo(results, e.take.v[1]) ELSE results

\* get() that applies the limit before the skip
getResults_limitFirst(e, all) ==
    LET filtered == applyQueries(all, e.queries)
    IN  IF filtered.threw THEN filtered
        ELSE [threw |-> FALSE, results |-> applySkip(e, applyLimit(e, filtered.results))]

\* lines 67-81 of get(): where clauses, then skip, then limit
getResults(e, all) ==
    LET filtered == applyQueries(all, e.queries)
    IN  IF filtered.threw THEN filtered
        ELSE [threw |-> FALSE, results |-> applyLimit(e, applySkip(e, filtered.results))]

\* (model as any)[relationName] = rows
Attach(model, relationName, rows) ==
    [k \in DOMAIN model \cup {relationName} |->
        IF k = relationName THEN [t |-> "rows", v |-> rows] ELSE model[k]]

(***************************************************************************)
(* The relation loop of get()/find() and loadRelations, run from one       *)
(* suspension point to the next: the outcome is that every record is done  *)
(* ("done"), that Model.relation threw ("throw"), or that a sub-query's    *)
(* getAll request was issued ("request").                                  *)
(***************************************************************************)
RECURSIVE loadRelations(_, _, _)
RECURSIVE loadRelation(_, _, _, _)
\* loadRelations without `if (!this.modelClass) return`: constructing the
\* model instance of an unbound handle throws
loadRelations_unguarded(e, results, i) ==
    IF i > Len(results)
    THEN [at |-> "done", idx |-> i, todo |-> <<>>, sub |-> Entity("", NoModel), error |-> NoError]
    ELSE IF e.modelClass = NoModel
    THEN [at |-> "throw", idx |-> i, todo |-> <<>>, sub |-> Entity("", NoModel),
          error |-> [t |-> "TypeError", name |-> ""]]
    ELSE IF DOMAIN relations(e.modelClass) = {} THEN loadRelations(e, results, i + 1)
    ELSE loadRelation(e, results, i, Keys(e.withs))

\* `for (const result of results) await this.loadRelations(result)` from
\* record i on
loadRelations(e, results, i) ==
    IF i > Len(results)
    THEN [at |-> "done", idx |-> i, todo |-> <<>>, sub |-> Entity("", NoModel), error |-> NoError]
    ELSE IF e.modelClass = NoModel THEN loadRelations(e, results, i + 1)
    ELSE IF DOMAIN relations(e.modelClass) = {} THEN loadRelations(e, results, i + 1)
    ELSE loadRelation(e, results, i, Keys(e.withs))

\* the relation loop run relation by relation: a name is loaded for every
\* record before the next name is started
loadRelation_relationMajor(e, results, i, todo) ==
    LET names == Keys(e.withs)
        finished == Len(names) - Len(todo)
        done == [at |-> "done", idx |-> i, todo |-> <<>>, sub |-> Entity("", NoModel),
                 error |-> NoError]
        request(j, left) ==
            [at |-> "request", idx |-> j, todo |-> left,
             sub |-> queryBuilder(WithFn(e.withs, Head(left)),
                                  getRelated(relation(e.modelClass, Head(left)), results[j])),
             error |-> NoError]
    IN  IF finished = 0 THEN (IF todo = <<>> THEN done ELSE request(i, todo))
        ELSE IF i < Len(results) THEN request(i + 1, SubSeq(names, finished, Len(names)))
        ELSE IF todo = <<>> THEN done
        ELSE request(1, todo)

\* `for (const relationName in this.withs)` of record i, names todo left
loadRelation(e, results, i, todo) ==
    IF todo = <<>> THEN loadRelations(e, results, i + 1)
    ELSE IF relationThrows(e.modelClass, Head(todo))
    THEN [at |-> "throw", idx |-> i, todo |-> todo, sub |-> Entity("", NoModel),
          error |-> [t |-> "Error", name |-> Head(todo)]]
    ELSE LET relatedQuery == getRelated(relation(e.modelClass, Head(todo)), results[i])
             finalQuery == queryBuilder(WithFn(e.withs, Head(todo)), relatedQuery)
         IN  [at |-> "request", idx |-> i, todo |-> todo, sub |-> finalQuery, error |-> NoError]

(***************************************************************************)
(* Inputs of the callers.                                                  *)
(***************************************************************************)
\* { age: { $gte: 30 } }
QueryAgeGte30 == <<Entry("age", Obj(<<Op("$gte", Num(30))>>))>>

\* { age: 25 }
QueryAge25 == <<Entry("age", Num(25))>>

\* { name: { $contains: "li" }, age: { $gt: 25, $lt: 35 } }
QueryLiBetween ==
    <<Entry("name", Obj(<<Op("$contains", Str(<<108, 105>>))>>)),
      Entry("age", Obj(<<Op("$gt", Num(25)), Op("$lt", Num(35))>>))>>

\* the clauses passed to where()
QuerySet == {QueryAgeGte30, QueryAge25, QueryLiBetween}

\* the arguments of limit() and skip()
CountSet == {Num(n) : n \in 0..MaxCount}

\* (query) => query
Identity == <<>>

\* { posts: (query) => query }
WithPosts == <<WithEntry("posts", Identity)>>

\* { posts: (query) => query.limit(1) }
WithPostsLimit == <<WithEntry("posts", <<Call("limit", <<>>, Num(1), <<>>)>>)>>

\* { authors: (query) => query }: no model declares this relation
WithAuthors == <<WithEntry("authors", Identity)>>

\* { posts: (query) => query, authors: (query) => query }
WithPostsAuthors == <<WithEntry("posts", Identity), WithEntry("authors", Identity)>>

\* the directives passed to with()
WithSet == {<<>>, WithPosts, WithPostsLimit, WithAuthors, WithPostsAuthors}

\* the keys passed to find(): 1 is in both stores, 5 in none
KeySet == {1, 5}

\* the handles of the database: users bound to User, posts bound to Post,
\* and a handle constructed without a model class
HandleSet == {Entity("users", "User"), Entity("posts", "Post"), Entity("users", NoModel)}

(***************************************************************************)
(* State.                                                                  *)
(***************************************************************************)
VARIABLES
    h,            \* the Entity handle: storeName, modelClass and builder fields
    pc,           \* "idle", "pending", "subPending", "resolved", "rejected", "stuck"
    call,         \* the execution call in flight: [kind, id]
    results,      \* the `results` of the running onsuccess callback
    idx,          \* the record whose relations are being loaded
    todo,         \* the relation names still to load for that record
    sub,          \* the Relation whose get() request is in flight
    value,        \* what the promise of get()/find() resolved with
    error,        \* the rejection reason, or the error thrown in a callback
    failed,       \* history: request.error of the store request that failed
    issued,       \* history: the handle's fields when the call was made
    reconfigured, \* history: a builder method was called since the last execution
    prev,         \* history: "resolved" or "stuck" when the previous execution was
                  \* issued with configuration and ended so, else "none"
    chain,        \* history: the builder calls since the last execution, in order
    last,         \* history: call, issued fields and value of the execution that
                  \* resolved before this one, where executions are recorded
    asked,        \* where calls may overlap: the unanswered get() calls, each with
                  \* the fields its caller's builder calls asked for and whether
                  \* another call was made while it or they were unanswered
    racing,       \* history: a builder call of the chain was made while a get()
                  \* was unanswered
    probe         \* the item, query and outcome of a direct matches() evaluation

vars == <<h, pc, call, results, idx, todo, sub, value, error, failed,
          issued, reconfigured, prev, chain, last, asked, racing, probe>>

NoCall == [kind |-> "none", id |-> 0]

NoSub == Entity("", NoModel)

NoProbe == [item |-> <<>>, query |-> <<>>, result |-> "none"]

TypeError == [t |-> "TypeError", name |-> ""]

NoLast == [call |-> NoCall, issued |-> NoSub, value |-> Undefined]

\* whether the entity's builder fields are those of a new Entity
IsCleared(e) == e.queries = <<>> /\ e.take = Null /\ e.offset = Null /\ e.withs = <<>>

\* no call was made yet
InitExec ==
    /\ pc = "idle"
    /\ call = NoCall
    /\ results = <<>>
    /\ idx = 0
    /\ todo = <<>>
    /\ sub = NoSub
    /\ value = Undefined
    /\ error = NoError
    /\ failed = NoError
    /\ issued = NoSub
    /\ reconfigured = FALSE
    /\ prev = "none"
    /\ chain = <<>>
    /\ last = NoLast
    /\ asked = <<>>
    /\ racing = FALSE

Init ==
    /\ h \in HandleSet
    /\ probe = NoProbe
    /\ InitExec

\* the variables of a running execution, unchanged by the builder methods
exec == <<pc, call, results, idx, todo, sub, value, error, failed, issued, prev, last,
          asked, racing, probe>>

\* the history of the caller, unchanged while the store answers
hist == <<call, issued, reconfigured, prev, chain, last, asked, racing, probe>>

(***************************************************************************)
(* The caller: builder methods.                                            *)
(***************************************************************************)
Where(query) ==
    /\ pc = "idle"
    /\ Len(h.queries) < MaxClauses
    /\ h' = where(h, query)
    /\ reconfigured' = TRUE
    /\ UNCHANGED exec

Limit(count) ==
    /\ pc = "idle"
    /\ h' = limit(h, count)
    /\ reconfigured' = TRUE
    /\ UNCHANGED exec

Skip(count) ==
    /\ pc = "idle"
    /\ h' = skip(h, count)
    /\ reconfigured' = TRUE
    /\ UNCHANGED exec

With(withs) ==
    /\ pc = "idle"
    /\ h' = with(h, withs)
    /\ reconfigured' = TRUE
    /\ UNCHANGED exec

CallWhere(query) == Where(query) /\ UNCHANGED chain

CallLimit(count) == Limit(count) /\ UNCHANGED chain

CallSkip(count) == Skip(count) /\ UNCHANGED chain

CallWith(withs) == With(withs) /\ UNCHANGED chain

(***************************************************************************)
(* The caller: execution methods.  get() and find() issue the store        *)
(* request and return the promise; the request is answered later.          *)
(***************************************************************************)
CallGet ==
    /\ pc = "idle"
    /\ pc' = "pending"
    /\ call' = [kind |-> "get", id |-> 0]
    /\ issued' = h
    /\ UNCHANGED <<h, results, idx, todo, sub, value, error, failed,
                   reconfigured, prev, chain, last, asked, racing, probe>>

CallFind(id) ==
    /\ pc = "idle"
    /\ pc' = "pending"
    /\ call' = [kind |-> "find", id |-> id]
    /\ issued' = h
    /\ UNCHANGED <<h, results, idx, todo, sub, value, error, failed,
                   reconfigured, prev, chain, last, asked, racing, probe>>

(***************************************************************************)
(* The store answers.  An onsuccess callback runs until it resolves the    *)
(* promise, throws (the promise of get()/find() is then never settled:     *)
(* the callback is an async function nobody awaits), or awaits the get()   *)
(* of a relation sub-query.                                                *)
(***************************************************************************)
\* find() that resolves with an empty array when the key is absent
resolved_emptyRows(kind, rows) ==
    IF kind = "get" \/ rows = <<>> THEN [t |-> "rows", v |-> rows]
    ELSE [t |-> "record", v |-> rows]

\* the value find()/get() resolves with
resolved(kind, rows) ==
    IF kind = "get" THEN [t |-> "rows", v |-> rows]
    ELSE IF rows = <<>> THEN Undefined
    ELSE [t |-> "record", v |-> rows]

\* this.clear(); resolve(results)
Resolve(rows) ==
    /\ h' = clear(h)
    /\ pc' = "resolved"
    /\ value' = resolved(call.kind, rows)
    /\ results' = <<>>
    /\ idx' = 0
    /\ todo' = <<>>
    /\ sub' = NoSub
    /\ UNCHANGED error

\* an exception leaves the callback
Throw(rows, i, err) ==
    /\ pc' = "stuck"
    /\ error' = err
    /\ results' = rows
    /\ idx' = i
    /\ todo' = <<>>
    /\ sub' = NoSub
    /\ UNCHANGED <<h, value>>

\* the callback going on with a relation descriptor that is shared between
\* executions and still holds the clause of the previous find()'s load
Proceed_staleClause(rows, step) ==
    CASE step.at = "done" -> Resolve(rows)
      [] step.at = "throw" -> Throw(rows, step.idx, step.error)
      [] step.at = "request" ->
            /\ pc' = "subPending"
            /\ results' = rows
            /\ idx' = step.idx
            /\ todo' = step.todo
            /\ sub' = IF last.call.kind = "find"
                      THEN [step.sub EXCEPT !.queries =
                               <<<<Entry(step.sub.foreignKey, Num(last.call.id))>>>> \o @]
                      ELSE step.sub
            /\ UNCHANGED <<h, value, error>>

\* the callback goes on to its next suspension point
Proceed(rows, step) ==
    CASE step.at = "done" -> Resolve(rows)
      [] step.at = "throw" -> Throw(rows, step.idx, step.error)
      [] step.at = "request" ->
            /\ pc' = "subPending"
            /\ results' = rows
            /\ idx' = step.idx
            /\ todo' = step.todo
            /\ sub' = step.sub
            /\ UNCHANGED <<h, value, error>>

\* request.onsuccess of get()
GetOnSuccess ==
    /\ pc = "pending"
    /\ call.kind = "get"
    /\ LET r == getResults(h, getAll(h.storeName))
       IN  IF r.threw THEN Throw(<<>>, 0, TypeError)
           ELSE IF Len(h.withs) > 0 THEN Proceed(r.results, loadRelations(h, r.results, 1))
           ELSE Resolve(r.results)
    /\ UNCHANGED <<hist, failed>>

\* find() that runs the fetched record through the where clauses, skip and limit
FindOnSuccess_filtered ==
    /\ pc = "pending"
    /\ call.kind = "find"
    /\ LET result == getResults(h, getByKey(h.storeName, call.id)).results
       IN  IF result # <<>> /\ Len(h.withs) > 0
           THEN Proceed(result, loadRelations(h, result, 1))
           ELSE Resolve(result)
    /\ UNCHANGED <<hist, failed>>

\* request.onsuccess of find()
FindOnSuccess ==
    /\ pc = "pending"
    /\ call.kind = "find"
    /\ LET result == getByKey(h.storeName, call.id)
       IN  IF result # <<>> /\ Len(h.withs) > 0
           THEN Proceed(result, loadRelations(h, result, 1))
           ELSE Resolve(result)
    /\ UNCHANGED <<hist, failed>>

\* onerror that rejects without clearing the builder fields
OnError_noClear(err) ==
    /\ pc = "pending"
    /\ failed' = err
    /\ pc' = "rejected"
    /\ error' = err
    /\ UNCHANGED <<h, results, idx, todo, sub, value, hist>>

\* request.onerror of get() and of find(): this.clear(); reject(request.error)
OnError(err) ==
    /\ pc = "pending"
    /\ failed' = err
    /\ h' = clear(h)
    /\ pc' = "rejected"
    /\ error' = err
    /\ UNCHANGED <<results, idx, todo, sub, value, hist>>

\* request.onsuccess of the sub-query's get(), then the continuation of the
\* awaiting loadRelations: the rows are attached and the loop goes on.  A
\* Relation binds no model class, so its own relation loop issues no request.
SubOnSuccess ==
    /\ pc = "subPending"
    /\ LET r == getResults(sub, getAll(sub.storeName))
           nested == IF ~r.threw /\ Len(sub.withs) > 0
                     THEN loadRelations(sub, r.results, 1).at ELSE "done"
           rows == [results EXCEPT ![idx] = Attach(@, Head(todo), r.results)]
       IN  IF r.threw THEN Throw(results, idx, TypeError)
           ELSE /\ nested = "done"
                /\ Proceed(rows, loadRelation(h, rows, idx, Tail(todo)))
    /\ UNCHANGED <<hist, failed>>

\* request.onerror of the sub-query's get(): its promise rejects and the
\* awaiting loadRelations throws the store's error
SubOnError(err) ==
    /\ pc = "subPending"
    /\ failed' = err
    /\ Throw(results, idx, err)
    /\ UNCHANGED hist

(***************************************************************************)
(* The caller after the call: it takes the settled promise's outcome, or   *)
(* (the promise never settling) some other task goes on using the handle.  *)
(***************************************************************************)
Continue ==
    /\ pc \in {"resolved", "rejected"}
    /\ pc' = "idle"
    /\ call' = NoCall
    /\ value' = Undefined
    /\ error' = NoError
    /\ failed' = NoError
    /\ issued' = NoSub
    /\ reconfigured' = FALSE
    /\ prev' = IF pc = "resolved" /\ ~IsCleared(issued) THEN "resolved" ELSE "none"
    /\ chain' = <<>>
    /\ UNCHANGED <<h, results, idx, todo, sub, last, asked, racing, probe>>

Abandon ==
    /\ pc = "stuck"
    /\ pc' = "idle"
    /\ call' = NoCall
    /\ results' = <<>>
    /\ idx' = 0
    /\ error' = NoError
    /\ failed' = NoError
    /\ issued' = NoSub
    /\ reconfigured' = FALSE
    /\ prev' = "stuck"
    /\ chain' = <<>>
    /\ UNCHANGED <<h, todo, sub, value, last, asked, racing, probe>>

Next ==
    \/ \E query \in QuerySet : CallWhere(query)
    \/ \E count \in CountSet : CallLimit(count)
    \/ \E count \in CountSet : CallSkip(count)
    \/ \E withs \in WithSet : CallWith(withs)
    \/ CallGet
    \/ \E id \in KeySet : CallFind(id)
    \/ GetOnSuccess
    \/ FindOnSuccess
    \/ \E err \in StoreErrors : OnError(err)
    \/ SubOnSuccess
    \/ \E err \in StoreErrors : SubOnError(err)
    \/ Continue
    \/ Abandon

Spec == Init /\ [][Next]_vars

(***************************************************************************)
(* The users handle with the chain of builder calls recorded: where, limit *)
(* and skip in any order, then get().                                      *)
(***************************************************************************)
ChainWhere(query) ==
    /\ Len(chain) < MaxChain
    /\ Where(query)
    /\ chain' = Append(chain, Call("where", query, Null, <<>>))

ChainLimit(count) ==
    /\ Len(chain) < MaxChain
    /\ Limit(count)
    /\ chain' = Append(chain, Call("limit", <<>>, count, <<>>))

ChainSkip(count) ==
    /\ Len(chain) < MaxChain
    /\ Skip(count)
    /\ chain' = Append(chain, Call("skip", <<>>, count, <<>>))

InitChain ==
    /\ h = Entity("users", "User")
    /\ probe = NoProbe
    /\ InitExec

NextChain ==
    \/ \E query \in QuerySet : ChainWhere(query)
    \/ \E count \in CountSet : ChainLimit(count)
    \/ \E count \in CountSet : ChainSkip(count)
    \/ CallGet
    \/ GetOnSuccess
    \/ \E err \in StoreErrors : OnError(err)
    \/ Continue

SpecChain == InitChain /\ [][NextChain]_vars

(***************************************************************************)
(* matches() evaluated directly on one item and one single-field query.    *)
(***************************************************************************)
\* "Alice", "alice", "A", "e", ""
StringSet ==
    { Str(<<65, 108, 105, 99, 101>>), Str(<<97, 108, 105, 99, 101>>),
      Str(<<65>>), Str(<<101>>), Str(<<>>) }

\* the values a record holds in its name field, or passes as an operand
ValueSet ==
    StringSet \cup {Num(25), Num(30), Num(35), Undefined, Null, Arr(<<25, 30>>), Arr(<<>>)}

\* the eleven operators of Query<T>, and one that is not among them
OperatorSet ==
    {"$eq", "$ne", "$gt", "$gte", "$lt", "$lte", "$in", "$nin",
     "$startsWith", "$endsWith", "$contains", "$regex"}

\* records with and without the field
ItemSet == {[id |-> Num(1)]} \cup {[id |-> Num(1), name |-> x] : x \in ValueSet \ {Undefined}}

\* the operators of Query<T>
KnownOperatorSet == OperatorSet \ {"$regex"}

\* { $regex: "e" }, an entry Query<T> does not declare
UnknownEntry == Op("$regex", Str(<<101>>))

\* { name: literal }, { name: { $op: operand } }, and the maps that hold the
\* undeclared entry after or before a declared one
ProbeQuerySet ==
    {<<Entry("name", x)>> : x \in ValueSet}
        \cup {<<Entry("name", Obj(<<Op(op, x)>>))>> : op \in OperatorSet, x \in ValueSet}
        \cup {<<Entry("name", Obj(<<Op(op, x), UnknownEntry>>))>> :
                  op \in KnownOperatorSet, x \in ValueSet}
        \cup {<<Entry("name", Obj(<<UnknownEntry, Op(op, x)>>))>> :
                  op \in KnownOperatorSet, x \in ValueSet}

InitMatches ==
    /\ h = Entity("users", "User")
    /\ probe \in {[item |-> item, query |-> query, result |-> "none"] :
                     item \in ItemSet, query \in ProbeQuerySet}
    /\ InitExec

\* this.matches(item, query)
Evaluate ==
    /\ probe.result = "none"
    /\ probe' = [probe EXCEPT !.result = matchesResult(probe.item, probe.query)]
    /\ UNCHANGED <<h, pc, call, results, idx, todo, sub, value, error, failed,
                   issued, reconfigured, prev, chain, last, asked, racing>>

NextMatches == Evaluate

SpecMatches == InitMatches /\ [][NextMatches]_vars

(***************************************************************************)
(* The accounts handle with its with() calls recorded and the execution    *)
(* that resolved before the current one remembered: with in any number,    *)
(* then get() or find().                                                   *)
(***************************************************************************)
\* { post: (query) => query }
WithPost == <<WithEntry("post", Identity)>>

\* { roles: (query) => query }
WithRoles == <<WithEntry("roles", Identity)>>

\* { posts: (query) => query, post: (query) => query }
WithPostsPost == <<WithEntry("posts", Identity), WithEntry("post", Identity)>>

\* { posts: (query) => query.with({ author: (query) => query }) }
WithPostsWithAuthor ==
    <<WithEntry("posts", <<Call("with", <<>>, Null, <<WithEntry("author", Identity)>>)>>)>>

\* the directives passed to with() on the accounts handle
RelationWithSet ==
    {<<>>, WithPosts, WithPost, WithRoles, WithPostsPost, WithPostsLimit, WithPostsWithAuthor}

\* the keys passed to find() on the accounts handle: account 1 holds role
\* keys, account 2 an empty array, account 3 lacks the field
RelationKeySet == {1, 2, 3}

ChainWith(withs) ==
    /\ Len(chain) < MaxWiths
    /\ With(withs)
    /\ chain' = Append(chain, Call("with", <<>>, Null, withs))

\* the caller takes the resolved value and remembers the execution
ContinueRecorded ==
    /\ pc = "resolved"
    /\ pc' = "idle"
    /\ call' = NoCall
    /\ value' = Undefined
    /\ error' = NoError
    /\ failed' = NoError
    /\ issued' = NoSub
    /\ reconfigured' = FALSE
    /\ prev' = IF ~IsCleared(issued) THEN "resolved" ELSE "none"
    /\ chain' = <<>>
    /\ last' = [call |-> call, issued |-> issued, value |-> value]
    /\ UNCHANGED <<h, results, idx, todo, sub, asked, racing, probe>>

InitRelations ==
    /\ h = Entity("accounts", "Account")
    /\ probe = NoProbe
    /\ InitExec

NextRelations ==
    \/ \E withs \in RelationWithSet : ChainWith(withs)
    \/ CallGet
    \/ \E id \in RelationKeySet : CallFind(id)
    \/ GetOnSuccess
    \/ FindOnSuccess
    \/ SubOnSuccess
    \/ ContinueRecorded
    \/ Abandon

SpecRelations == InitRelations /\ [][NextRelations]_vars

(***************************************************************************)
(* The users handle used without waiting: where, limit, skip and get() are *)
(* called while earlier get() calls are unanswered.  Every get() issues    *)
(* its getAll request at once, in a transaction of its own; the store      *)
(* answers the unanswered requests in either order, and each answer runs   *)
(* the onsuccess of get() on the fields the handle holds by then.          *)
(***************************************************************************)
\* every unanswered call saw another call made
MarkOverlapped(calls) == [i \in DOMAIN calls |-> [calls[i] EXCEPT !.overlapped = TRUE]]

\* the bookkeeping of a builder call made at any time before the answer
Overlap(c) ==
    /\ pc \in {"idle", "pending"}
    /\ Len(chain) < MaxOverlap
    /\ chain' = Append(chain, c)
    /\ racing' = (racing \/ pc = "pending")
    /\ asked' = IF pc = "pending" THEN MarkOverlapped(asked) ELSE asked
    /\ reconfigured' = TRUE
    /\ UNCHANGED <<pc, call, results, idx, todo, sub, value, error, failed, issued,
                   prev, last, probe>>

OverlapWhere(query) ==
    /\ h' = where(h, query)
    /\ Overlap(Call("where", query, Null, <<>>))

OverlapLimit(count) ==
    /\ h' = limit(h, count)
    /\ Overlap(Call("limit", <<>>, count, <<>>))

OverlapSkip(count) ==
    /\ h' = skip(h, count)
    /\ Overlap(Call("skip", <<>>, count, <<>>))

\* get() that resets the handle when it is called, before the store answers
OverlapGet_clearsAtCall ==
    /\ pc \in {"idle", "pending"}
    /\ Len(asked) < MaxAsked
    /\ asked' = Append(IF pc = "pending" THEN MarkOverlapped(asked) ELSE asked,
                       [fields |-> queryBuilder(chain, Entity(h.storeName, h.modelClass)),
                        overlapped |-> (racing \/ pc = "pending")])
    /\ chain' = <<>>
    /\ racing' = FALSE
    /\ h' = clear(h)
    /\ IF pc = "idle"
       THEN pc' = "pending" /\ call' = [kind |-> "get", id |-> 0] /\ issued' = h
       ELSE UNCHANGED <<pc, call, issued>>
    /\ UNCHANGED <<results, idx, todo, sub, value, error, failed, reconfigured,
                   prev, last, probe>>

\* get(), called while idle or while earlier get() calls are unanswered: the
\* request is issued and the fields are left for its onsuccess to read
OverlapGet ==
    /\ pc \in {"idle", "pending"}
    /\ Len(asked) < MaxAsked
    /\ asked' = Append(IF pc = "pending" THEN MarkOverlapped(asked) ELSE asked,
                       [fields |-> queryBuilder(chain, Entity(h.storeName, h.modelClass)),
                        overlapped |-> (racing \/ pc = "pending")])
    /\ chain' = <<>>
    /\ racing' = FALSE
    /\ IF pc = "idle"
       THEN pc' = "pending" /\ call' = [kind |-> "get", id |-> 0] /\ issued' = h
       ELSE UNCHANGED <<pc, call, issued>>
    /\ UNCHANGED <<h, results, idx, todo, sub, value, error, failed, reconfigured,
                   prev, last, probe>>

\* the store schedules the later of two unanswered requests first
Overtake ==
    /\ pc = "pending"
    /\ Len(asked) = 2
    /\ asked[1] # asked[2]
    /\ asked' = <<asked[2], asked[1]>>
    /\ UNCHANGED <<h, pc, call, results, idx, todo, sub, value, error, failed, issued,
                   reconfigured, prev, chain, last, racing, probe>>

\* the caller takes the value of the answered get(); the next unanswered one,
\* if any, is the one in flight
OverlapContinue ==
    /\ pc = "resolved"
    /\ asked' = Tail(asked)
    /\ pc' = IF Tail(asked) = <<>> THEN "idle" ELSE "pending"
    /\ call' = IF Tail(asked) = <<>> THEN NoCall ELSE call
    /\ issued' = IF Tail(asked) = <<>> THEN NoSub ELSE issued
    /\ value' = Undefined
    /\ UNCHANGED <<h, results, idx, todo, sub, error, failed, reconfigured, prev, chain,
                   last, racing, probe>>

InitOverlap ==
    /\ h = Entity("users", "User")
    /\ probe = NoProbe
    /\ InitExec

NextOverlap ==
    \/ OverlapWhere(QueryAge25)
    \/ OverlapLimit(Num(1))
    \/ OverlapSkip(Num(1))
    \/ OverlapGet
    \/ Overtake
    \/ GetOnSuccess
    \/ OverlapContinue

SpecOverlap == InitOverlap /\ [][NextOverlap]_vars

(***************************************************************************)
(* What the claims speak of.                                               *)
(***************************************************************************)
\* the primary keys of a sequence of records
Ids(rows) == [i \in DOMAIN rows |-> rows[i].id.v[1]]

\* the record satisfies every field and every operator entry of the clause
Satisfies(item, query) ==
    \A i \in DOMAIN query :
        LET itemValue == Field(item, query[i].key)
        IN  IF query[i].value.t = "object"
            THEN \A j \in DOMAIN query[i].value.v :
                    matchesOperator(query[i].value.v[j].op, itemValue,
                                    query[i].value.v[j].operand) = "break"
            ELSE StrictEquals(itemValue, query[i].value)

\* the clauses of the where() calls of the chain, in call order
ChainQueries ==
    LET calls == SelectSeq(chain, LAMBDA c : c.m = "where")
    IN  [i \in DOMAIN calls |-> calls[i].query]

\* the argument of the last call of method m in the chain, null without one
LastCount(m) ==
    LET calls == SelectSeq(chain, LAMBDA c : c.m = m)
    IN  IF calls = <<>> THEN Null ELSE calls[Len(calls)].count

\* the store's records that satisfy every clause, in store order
Matching(storeName, queries) ==
    SelectSeq(getAll(storeName),
              LAMBDA item : \A i \in DOMAIN queries : Satisfies(item, queries[i]))

\* rows with the first skipCount dropped, then at most limitCount kept; a
\* null or zero count is no offset and no limit
Page(rows, skipCount, limitCount) ==
    LET s == IF skipCount.t = "number" THEN skipCount.v[1] ELSE 0
        rest == IF Len(rows) > s THEN Len(rows) - s ELSE 0
        n == IF limitCount.t = "number" /\ limitCount.v[1] > 0 /\ limitCount.v[1] < rest
             THEN limitCount.v[1] ELSE rest
    IN  [i \in 1..n |-> rows[i + s]]

\* the directive names a relation the handle's model class does not declare
NamesUnknownRelation(e) ==
    \E i \in DOMAIN e.withs : relationThrows(e.modelClass, e.withs[i].name)

\* C1: once a get() or find() has resolved, the handle's clauses, limit, skip
\* and with-directive are empty, and they stay so until the caller configures
\* the handle again; a get() issued without reconfiguration after a configured
\* execution resolved returns every record of the store.
C1_ClearedAfterExecution ==
    /\ pc = "resolved" => IsCleared(h)
    /\ (pc \in {"idle", "pending"} /\ prev = "resolved" /\ ~reconfigured) => IsCleared(h)
    /\ (pc = "resolved" /\ call.kind = "get" /\ prev = "resolved" /\ ~reconfigured)
          => value = [t |-> "rows", v |-> getAll(h.storeName)]

\* C1 witness: the second get() on the users handle, issued with no
\* reconfiguration after a configured execution, resolved with all four users
C1_Witness ==
    /\ pc = "resolved"
    /\ call.kind = "get"
    /\ prev = "resolved"
    /\ ~reconfigured
    /\ h.storeName = "users"
    /\ Ids(value.v) = <<1, 2, 3, 4>>

\* C2: get() resolves with the records matching every where() clause of the
\* chain, in store order, with the first `skip` dropped and then at most
\* `limit` kept, in whatever order where, skip and limit were chained.
C2_FilterSkipLimit ==
    (pc = "resolved" /\ call.kind = "get")
        => value = [t |-> "rows",
                    v |-> Page(Matching(h.storeName, ChainQueries),
                               LastCount("skip"), LastCount("limit"))]

\* C2 witness: limit(2).skip(1).get() over the four users resolved with the
\* second and third (the skip is applied first although chained last)
C2_Witness ==
    /\ pc = "resolved"
    /\ call.kind = "get"
    /\ chain = <<Call("limit", <<>>, Num(2), <<>>), Call("skip", <<>>, Num(1), <<>>)>>
    /\ Ids(value.v) = <<2, 3>>

\* C3: every record get() returns satisfies every clause, field and operator
\* entry of the chain's where() calls, and without pagination the result is
\* exactly the store's records that do, in store order.
C3_ClausesConjoin ==
    (pc = "resolved" /\ call.kind = "get")
        => /\ \A i \in DOMAIN value.v : \A k \in DOMAIN ChainQueries :
                  Satisfies(value.v[i], ChainQueries[k])
           /\ (~Truthy(LastCount("skip")) /\ ~Truthy(LastCount("limit")))
                  => value.v = Matching(h.storeName, ChainQueries)

\* C3 witness: where({age >= 30}).where({name contains "li", 25 < age < 35})
\* resolved with Alice alone (Charlie fails the one entry $lt)
C3_Witness ==
    /\ pc = "resolved"
    /\ call.kind = "get"
    /\ ChainQueries = <<QueryAgeGte30, QueryLiBetween>>
    /\ Ids(value.v) = <<1>>

\* the first operator entry of a probe query { name: { $op: operand, ... } }
ProbeOp == probe.query[1].value.v[1]

\* C4 (as claimed): $startsWith, $endsWith and $contains never throw, and
\* match iff the field value and the operand are both strings and the
\* prefix, suffix or substring test holds.
C4_StringOperatorsRejectNonStrings ==
    (/\ probe.result # "none"
     /\ probe.query[1].value.t = "object"
     /\ Len(probe.query[1].value.v) = 1
     /\ ProbeOp.op \in {"$startsWith", "$endsWith", "$contains"})
        => LET itemValue == Field(probe.item, "name")
               bothStrings == itemValue.t = "string" /\ ProbeOp.operand.t = "string"
               test == CASE ProbeOp.op = "$startsWith" -> StartsWith(itemValue.v, ProbeOp.operand.v)
                         [] ProbeOp.op = "$endsWith" -> EndsWith(itemValue.v, ProbeOp.operand.v)
                         [] OTHER -> Includes(itemValue.v, ProbeOp.operand.v)
           IN  /\ probe.result # "throw"
               /\ (probe.result = "true") <=> (bothStrings /\ test)

\* C5 (as claimed): an execution on a handle bound to a model class never
\* resolves with a surviving record while its directive names a relation the
\* class's table lacks (resolving that entry raises instead).
C5_UnknownRelationRaises ==
    (pc = "resolved" /\ issued.modelClass # NoModel /\ NamesUnknownRelation(issued))
        => value.v = <<>>

\* C6 (as claimed): when relation resolution fails for a record, the promise
\* of get()/find() is rejected with that failure.
C6_RelationFailureRejects ==
    (error # NoError /\ idx > 0) => pc = "rejected"

\* C7: a failed fetch-all or fetch-by-key request rejects get()/find() with
\* the request's own error, with the handle's clauses, limit, skip and
\* with-directive cleared.
C7_StoreFailureRejectsCleared ==
    pc = "rejected" => (error = failed /\ failed \in StoreErrors /\ IsCleared(h))

\* C7 witness: a find() issued on a configured handle was rejected with the
\* store's AbortError
C7_Witness ==
    /\ pc = "rejected"
    /\ call.kind = "find"
    /\ issued.queries # <<>>
    /\ Truthy(issued.take)
    /\ issued.withs # <<>>
    /\ error.name = "AbortError"

\* C8: find(id) of a stored key resolves with that record whatever clauses,
\* limit and skip the handle holds, and leaves them cleared.
C8_FindIgnoresFilters ==
    (pc = "resolved" /\ call.kind = "find" /\ getByKey(h.storeName, call.id) # <<>>)
        => /\ value.t = "record"
           /\ \A k \in DOMAIN getByKey(h.storeName, call.id)[1] :
                  k \notin {issued.withs[i].name : i \in DOMAIN issued.withs}
                      => Field(value.v[1], k) = getByKey(h.storeName, call.id)[1][k]
           /\ IsCleared(h)

\* C8 witness: find(1) resolved with Alice (age 30) on the users handle holding
\* the clause { age: 25 }, skip(2) and limit(1)
C8_Witness ==
    /\ pc = "resolved"
    /\ call = [kind |-> "find", id |-> 1]
    /\ issued.storeName = "users"
    /\ issued.queries = <<QueryAge25>>
    /\ issued.offset = Num(2)
    /\ issued.take = Num(1)
    /\ value.v[1].id = Num(1)
    /\ value.v[1].age = Num(30)

\* C9: find(id) of a key the store lacks never attempts relation resolution,
\* is rejected only when the store request fails, and otherwise resolves
\* with undefined and the handle cleared.
C9_FindMissingKey ==
    (call.kind = "find" /\ getByKey(h.storeName, call.id) = <<>>)
        => /\ pc \in {"pending", "resolved", "rejected"}
           /\ pc = "rejected" => failed # NoError
           /\ pc = "resolved" => (value = Undefined /\ IsCleared(h))

\* C9 witness: find(5) resolved with undefined on the users handle although
\* its directive names a relation User does not declare
C9_Witness ==
    /\ pc = "resolved"
    /\ call = [kind |-> "find", id |-> 5]
    /\ issued.modelClass = "User"
    /\ issued.withs = WithAuthors
    /\ value = Undefined

\* C10: the effective limit and skip are the arguments of the last limit()
\* and the last skip() call of the chain, and a get() without clauses pages
\* the store by them.
C10_LastLimitSkipWins ==
    /\ pc \in {"idle", "pending"}
          => (h.take = LastCount("limit") /\ h.offset = LastCount("skip"))
    /\ (pc = "resolved" /\ call.kind = "get" /\ ChainQueries = <<>>)
          => value.v = Page(getAll(h.storeName), LastCount("skip"), LastCount("limit"))

\* C10 witness: skip(1).skip(2).get() resolved with the last two users, as
\* skip(2) does
C10_Witness ==
    /\ pc = "resolved"
    /\ call.kind = "get"
    /\ chain = <<Call("skip", <<>>, Num(1), <<>>), Call("skip", <<>>, Num(2), <<>>)>>
    /\ Ids(value.v) = <<3, 4>>

\* C11: a get() whose last limit() call passed 0 resolves with every filtered
\* record after the skip (no limit, whatever positive limit was chained
\* before), and one whose last skip() call passed 0 resolves with the filtered
\* records from the first on (no offset, whatever skip was chained before).
C11_ZeroIsUnset ==
    (pc = "resolved" /\ call.kind = "get")
        => /\ LastCount("limit") = Num(0)
                 => value.v = Page(Matching(h.storeName, ChainQueries), LastCount("skip"), Null)
           /\ LastCount("skip") = Num(0)
                 => value.v = Page(Matching(h.storeName, ChainQueries), Null, LastCount("limit"))

\* C11 witness: limit(1).limit(0).skip(0).get() resolved with all four users
C11_Witness ==
    /\ pc = "resolved"
    /\ call.kind = "get"
    /\ chain = <<Call("limit", <<>>, Num(1), <<>>), Call("limit", <<>>, Num(0), <<>>),
                 Call("skip", <<>>, Num(0), <<>>)>>
    /\ Ids(value.v) = <<1, 2, 3, 4>>

\* the names of a directive
Names(withs) == {withs[i].name : i \in DOMAIN withs}

\* the rows attached to a record under a relation name
Attached(model, name) == model[name].v

\* C12: after with(A) ... with(B), the execution resolves with records that
\* carry exactly the relations named in B: every relation of the model class
\* that B names is attached, and none that only an earlier directive named.
C12_WithReplaces ==
    (pc = "resolved" /\ chain # <<>>)
        => \A i \in DOMAIN value.v : \A name \in DOMAIN relations(h.modelClass) :
              name \in DOMAIN value.v[i] <=> name \in Names(chain[Len(chain)].withs)

\* C12 witness: with({posts}).with({roles}).find(1) resolved with account 1
\* carrying its roles and no posts
C12_Witness ==
    /\ pc = "resolved"
    /\ call = [kind |-> "find", id |-> 1]
    /\ chain = <<Call("with", <<>>, Null, WithPosts), Call("with", <<>>, Null, WithRoles)>>
    /\ "roles" \in DOMAIN value.v[1]
    /\ "posts" \notin DOMAIN value.v[1]

\* the target store's records whose foreign-key field equals the value of the
\* source record's local-key field, in store order
RelatedByKey(rel, model) ==
    SelectSeq(getAll(rel.storeName),
              LAMBDA target : StrictEquals(Field(target, rel.foreignKey),
                                           Field(model, rel.localKey)))

RelatedByMembership(rel, model) ==
    SelectSeq(getAll(rel.storeName),
              LAMBDA target :
                  /\ Field(target, rel.foreignKey).t = "number"
                  /\ \E j \in DOMAIN Field(model, rel.localKey).v :
                        Field(model, rel.localKey).v[j] = Field(target, rel.foreignKey).v[1])

C15_NestedRelationsAttached ==
    pc = "resolved"
        => \A i \in DOMAIN value.v : \A k \in DOMAIN issued.withs :
              LET name == issued.withs[k].name
                  fn == issued.withs[k].fn
              IN  \A c \in DOMAIN fn :
                    /\ fn[c].m = "with"
                          => \A j \in DOMAIN Attached(value.v[i], name) :
                                Names(fn[c].withs) \subseteq DOMAIN Attached(value.v[i], name)[j]
                    /\ fn[c].m = "limit"
                          => Len(Attached(value.v[i], name)) <= fn[c].count.v[1]

\* the probe evaluated a query { name: { $op: operand } } of one operator entry
ProbedOperator(ops) ==
    /\ probe.result # "none"
    /\ probe.query[1].value.t = "object"
    /\ Len(probe.query[1].value.v) = 1
    /\ ProbeOp.op \in ops

\* C16: on a numeric field and a numeric operand, $gt matches exactly the
\* values above the operand, $gte those above or equal, $lt those below and
\* $lte those below or equal; so a value equal to the operand is matched by
\* $gte and $lte and by neither $gt nor $lt.
C16_OrderingBoundary ==
    (/\ ProbedOperator({"$gt", "$gte", "$lt", "$lte"})
     /\ Field(probe.item, "name").t = "number"
     /\ ProbeOp.operand.t = "number")
        => LET x == Field(probe.item, "name").v[1]
               n == ProbeOp.operand.v[1]
           IN  (probe.result = "true") <=>
                   CASE ProbeOp.op = "$gt" -> x > n
                     [] ProbeOp.op = "$gte" -> x >= n
                     [] ProbeOp.op = "$lt" -> x < n
                     [] ProbeOp.op = "$lte" -> x <= n

\* C16 witness: { name: { $gt: 30 } } evaluated to no match on a record whose
\* name field holds 30
C16_Witness ==
    /\ probe.result = "false"
    /\ probe.item = [id |-> Num(1), name |-> Num(30)]
    /\ probe.query = <<Entry("name", Obj(<<Op("$gt", Num(30))>>))>>

\* C17: with an array operand S, $in matches exactly the records whose field
\* value is an element of S and $nin exactly the others (a record without the
\* field, values outside S, every record when S is empty), neither throws,
\* and the two clauses over the same S never agree on a record.
C17_InNinComplementary ==
    (ProbedOperator({"$in", "$nin"}) /\ ProbeOp.operand.t = "array")
        => LET itemValue == Field(probe.item, "name")
               S == ProbeOp.operand
               element == /\ itemValue.t = "number"
                          /\ \E i \in DOMAIN S.v : S.v[i] = itemValue.v[1]
               other == IF ProbeOp.op = "$in" THEN "$nin" ELSE "$in"
           IN  /\ probe.result \in {"true", "false"}
               /\ (probe.result = "true") <=> (element <=> ProbeOp.op = "$in")
               /\ matchesResult(probe.item, <<Entry("name", Obj(<<Op(other, S)>>))>>)
                      \in {"true", "false"} \ {probe.result}

\* C17 witness: { name: { $in: [25, 30] } } evaluated to a match on a record
\* whose name field holds 30, the second element
C17_Witness ==
    /\ probe.result = "true"
    /\ probe.item = [id |-> Num(1), name |-> Num(30)]
    /\ probe.query = <<Entry("name", Obj(<<Op("$in", Arr(<<25, 30>>))>>))>>

\* C18 (as claimed): a clause whose operator map holds an operator outside
\* the eleven of Query<T> evaluates to no match on every record, without
\* throwing, whatever the other entries of the map are.
C18_UnknownOperatorNeverMatches ==
    (/\ probe.result # "none"
     /\ probe.query[1].value.t = "object"
     /\ \E i \in DOMAIN probe.query[1].value.v :
           probe.query[1].value.v[i].op \notin KnownOperatorSet)
        => probe.result = "false"

\* C19 (as claimed): an ordering operator whose field value or operand is not
\* a number (the two not being both strings), and a membership operator whose
\* operand is not an array, evaluate to no match without throwing.
C19_IncompatibleOperandNeverMatches ==
    LET itemValue == Field(probe.item, "name")
    IN  /\ (/\ ProbedOperator({"$gt", "$gte", "$lt", "$lte"})
             /\ (itemValue.t # "number" \/ ProbeOp.operand.t # "number")
             /\ ~(itemValue.t = "string" /\ ProbeOp.operand.t = "string"))
                => probe.result = "false"
        /\ (ProbedOperator({"$in", "$nin"}) /\ ProbeOp.operand.t # "array")
                => probe.result = "false"

\* the where() calls a refinement makes
RefinementClauses(fn) == Len(SelectSeq(fn, LAMBDA c : c.m = "where"))

Range(names) == {names[i] : i \in DOMAIN names}

\* C21: while the handle's own request is in flight no sub-query is, and
\* while the sub-query of record idx and relation Head(todo) is in flight it
\* is the only one: every earlier record carries every relation of the
\* directive, record idx carries exactly the names that precede Head(todo),
\* and no later record carries any (so the sub-queries are issued one after
\* the completion of the other, in result order and in directive order).
C21_RelationLoadsSequential ==
    /\ pc = "pending" => (sub = NoSub /\ results = <<>>)
    /\ pc = "subPending"
          => /\ idx \in DOMAIN results
             /\ todo # <<>>
             /\ Range(todo) \subseteq Names(h.withs)
             /\ \A j \in DOMAIN results : \A name \in Names(h.withs) :
                   name \in DOMAIN results[j]
                       <=> (j < idx \/ (j = idx /\ name \notin Range(todo)))

\* C21 witness: during with({posts, post}).get() the sub-query of account 2's
\* `post` is in flight: account 1 carries both relations, account 2 its
\* posts only, account 3 none
C21_Witness ==
    /\ pc = "subPending"
    /\ call.kind = "get"
    /\ h.withs = WithPostsPost
    /\ idx = 2
    /\ todo = <<"post">>
    /\ Ids(Attached(results[1], "post")) = <<1, 2>>
    /\ Ids(Attached(results[2], "posts")) = <<3>>
    /\ DOMAIN results[3] = {"id"}

\* C22 (as claimed): an issued get() or find() with no store request
\* outstanding has its promise settled, resolved or rejected (every callback
\* that ends, ends by settling the promise, also when it ends by an exception).
C22_EndedCallbackSettles ==
    (call # NoCall /\ pc \notin {"pending", "subPending"}) => pc \in {"resolved", "rejected"}

\* C23: a clause { name: literal } matches a record exactly when the record's
\* name value has the literal's type and value, both being numbers, strings,
\* null or undefined (a record without the field reads undefined and matches
\* the literal undefined alone; an array literal matches nothing), and for
\* such a scalar literal the clause { name: { $eq: literal } } evaluates alike.
C23_LiteralIsStrictEquality ==
    (probe.result # "none" /\ probe.query[1].value.t # "object")
        => LET literal == probe.query[1].value
               itemValue == IF "name" \in DOMAIN probe.item THEN probe.item.name ELSE Undefined
               scalar == literal.t \in {"number", "string", "null", "undefined"}
           IN  /\ (probe.result = "true") <=> (scalar /\ itemValue = literal)
               /\ probe.result \in {"true", "false"}
               /\ scalar => probe.result =
                      matchesResult(probe.item, <<Entry("name", Obj(<<Op("$eq", literal)>>))>>)

\* C23 witness: { name: undefined } evaluated to a match on the record
\* without a name field
C23_Witness ==
    /\ probe.result = "true"
    /\ probe.item = [id |-> Num(1)]
    /\ probe.query = <<Entry("name", Undefined)>>

\* C24: a get() that no other call overlapped (it was called with no get()
\* unanswered, after builder calls made with none unanswered, and nothing was
\* called before its answer) runs on the fields its caller asked for and
\* resolves with the records they select; only an overlapped get() can
\* resolve with other records or find its configuration erased.
C24_NonOverlappingUnaffected ==
    /\ (pc = "pending" /\ ~Head(asked).overlapped)
          => (Len(asked) = 1 /\ h = Head(asked).fields)
    /\ (pc = "resolved" /\ ~Head(asked).overlapped)
          => value.v = Page(Matching(h.storeName, Head(asked).fields.queries),
                            Head(asked).fields.offset, Head(asked).fields.take)

\* C24 witness: get() was called with no clause, then where({ age: 25 }) and
\* a second get() before the answer: the first get() resolved with Bob and
\* David alone, and its reset erased the clause the second get() is waiting
\* to run with
C24_Witness ==
    /\ pc = "resolved"
    /\ Len(asked) = 2
    /\ IsCleared(asked[1].fields)
    /\ Ids(value.v) = <<2, 4>>
    /\ asked[2].fields.queries = <<QueryAge25>>
    /\ IsCleared(h)

\* C25 (as claimed): when relation resolution failed for a record of a get()
\* or find(), the handle's clauses, limit, skip and with-directive are empty,
\* and a get() issued next without reconfiguration resolves with every
\* record of the store.
C25_ClearedAfterFailedRelation ==
    /\ (pc = "stuck" /\ idx > 0) => IsCleared(h)
    /\ (pc \in {"idle", "pending"} /\ prev = "stuck" /\ ~reconfigured) => IsCleared(h)
    /\ (pc = "resolved" /\ call.kind = "get" /\ prev = "stuck" /\ ~reconfigured)
          => value = [t |-> "rows", v |-> getAll(h.storeName)]

\* C26: an execution issued on a handle bound to no model class never has a
\* sub-query in flight and never ends by an exception, is rejected only with
\* the error of its own store request, and resolves with the handle cleared
\* and with the value its clauses, skip and limit (or its key) select from
\* the store, no field added, whatever its with-directive names.
C26_UnboundHandleIgnoresWith ==
    (call # NoCall /\ issued.modelClass = NoModel)
        => /\ pc \in {"pending", "resolved", "rejected"}
           /\ sub = NoSub
           /\ pc = "rejected" => (error = failed /\ failed \in StoreErrors)
           /\ pc = "resolved"
                 => /\ IsCleared(h)
                    /\ call.kind = "get"
                          => value = [t |-> "rows",
                                      v |-> Page(Matching(issued.storeName, issued.queries),
                                                 issued.offset, issued.take)]
                    /\ call.kind = "find"
                          => value = IF getByKey(issued.storeName, call.id) = <<>>
                                     THEN Undefined
                                     ELSE [t |-> "record",
                                           v |-> getByKey(issued.storeName, call.id)]

\* C26 witness: with({ posts, authors }).get() on the users handle bound to no
\* model class resolved with the four users as the store holds them
C26_Witness ==
    /\ pc = "resolved"
    /\ call.kind = "get"
    /\ issued.modelClass = NoModel
    /\ issued.withs = WithPostsAuthors
    /\ issued.queries = <<>>
    /\ value.v = getAll("users")

====
